---- MODULE Spec2Model ----
(***************************************************************************)
(* A model of lui, a terminal client for Lemmy.                            *)
(*                                                                         *)
(*   Spec      the application of src/src/lui/_main.py: the login form,    *)
(*             the reactive session cell, the search handler and the       *)
(*             thumbnail tasks of the posts.                               *)
(*   SpecKitty the KittyImage codec of src/src/lui/_main.py.               *)
(*   SpecSel   the selection of PostView in src/main.py.                   *)
(***************************************************************************)
EXTENDS Integers, Sequences, FiniteSets, TLC

VARIABLES
    \* ---- src/src/lui/_main.py, the application
    lemmy,        \* LemmyView.lemmy, the reactive session cell
    nLemmy,       \* number of Lemmy objects constructed so far (object identity)
    logged,       \* the class "logged" of the app
    label,        \* the Label of the login form
    posts,        \* the children of PostView, in order (ids of Post widgets)
    created,      \* every Post widget constructed so far, by id
    tasks,        \* ids of the posts whose update_thumbnail task is pending
    focus,        \* the focused widget
    searching,    \* the class "searching" of the Search widget
    pc,           \* position inside the synchronous handler action_search
    result,       \* result["posts"] of the search call being installed
    it,           \* number of records of result already handed to add_post
    nSearch,      \* number of search calls issued so far
    lastSearch,   \* the arguments of the last search call
    lastLogin,    \* what the last run of LoginForm.log_in did
    widgets,      \* the values of #query, #searchtype, #sorttype, #listingtype
    nav,          \* the last focus binding handled, and the focus it found
    \* ---- src/src/lui/_main.py, KittyImage
    png,          \* the bytes of KittyImage.png
    buf,          \* the frames written to KittyImage.buf
    kpc,          \* "new" before write_chunked has run, "done" after
    decodable,    \* whether the bytes of the response are an image
    \* ---- src/main.py, PostView
    nPosts,       \* len(self.query('Post'))
    idx,          \* PostView.idx
    selected,     \* the set of indices of posts holding the class "selected"
    mounted,      \* on_mount has run
    runStart,     \* idx at the start of the current run of equal moves
    runDir,       \* direction of the current run (0: none)
    runLen,       \* length of the current run
    prevIdx,      \* idx before the last move
    selRaised     \* _move_selection has raised IndexError

appVars == <<lemmy, nLemmy, logged, label, posts, created, tasks, focus,
             searching, pc, result, it, nSearch, lastSearch, lastLogin, widgets>>
navVars == <<nav>>
kittyVars == <<png, buf, kpc, decodable>>
selVars == <<nPosts, idx, selected, mounted, runStart, runDir, runLen, prevIdx,
             selRaised>>
vars == <<appVars, navVars, kittyVars, selVars>>

----------------------------------------------------------------------------
\* Bounds of the model.

MaxLogins == 2      \* Lemmy objects constructed
MaxSearches == 2    \* search calls issued
MaxPosts == 3       \* Post widgets constructed
MaxResults == 2     \* records in one search result

Range(s) == {s[i] : i \in 1..Len(s)}

----------------------------------------------------------------------------
\* Strings are sequences of characters.

http == <<"h", "t", "t", "p">>
https_prefix == <<"h", "t", "t", "p", "s", ":", "/", "/">>
http_prefix == <<"h", "t", "t", "p", ":", "/", "/">>
host == <<"x">>

\* str.startswith
startswith(s, p) == Len(s) >= Len(p) /\ SubSeq(s, 1, Len(p)) = p

\* str.endswith
endswith(s, p) == Len(s) >= Len(p) /\ SubSeq(s, Len(s) - Len(p) + 1, Len(s)) = p

RECURSIVE lstrip(_, _)
lstrip(s, c) == IF s /= <<>> /\ Head(s) = c THEN lstrip(Tail(s), c) ELSE s

RECURSIVE rstrip(_, _)
rstrip(s, c) ==
    IF s /= <<>> /\ s[Len(s)] = c THEN rstrip(SubSeq(s, 1, Len(s) - 1), c) ELSE s

\* str.strip(c): a new string, s itself is left as it is
strip(s, c) == rstrip(lstrip(s, c), c)

\* The values of the #inst, #user and #passwd inputs the form is submitted with.
InstInputs ==
    { pre \o host \o suf :
        pre \in {<<>>, https_prefix, http_prefix, http},
        suf \in {<<>>, <<"/">>, <<"/", "/">>} }
UserInputs == {<<>>, <<"u">>}
PasswdInputs == {<<>>, <<"p">>}

\* Lemmy(inst).nodeinfo: 0 is a falsy nodeinfo (unreachable or no Lemmy server).
NodeInfos == {0, 1, 2}

None == [id |-> 0, nodeinfo |-> 0, authenticated |-> FALSE]

\* The records a search call can return.
NoUrl == "None"
PostRecords == {[name |-> "a", thumbnail_url |-> NoUrl], [name |-> "b", thumbnail_url |-> "u"]}
SeqsUpTo(S, n) == UNION {[1..k -> S] : k \in 0..n}
SearchResults == SeqsUpTo(PostRecords, MaxResults)

\* The values of the widgets of Search: the defaults of Search.compose, and
\* what the user can change them to.
DefaultQuery == [q |-> "", type_ |-> "Posts", sort |-> "Active", listing_type |-> "All"]
QueryTexts == {"", "cats"}
SearchTypes == {"Posts", "Comments"}
SortTypes == {"Active", "New"}
ListingTypes == {"All", "Local"}
NoQuery == [q |-> "", type_ |-> "", sort |-> "", listing_type |-> ""]
NoSearch == [sid |-> 0, spec |-> NoQuery, prev |-> NoQuery, via |-> "", skipped |-> FALSE]

NoFocus == [w |-> "none", id |-> 0]
NoNav == [key |-> "", from |-> NoFocus]
NoLogin == [outcome |-> "none", inst |-> <<>>, arg |-> <<>>, user |-> <<>>,
            passwd |-> <<>>, nodeinfo |-> 0, authOk |-> FALSE,
            authTried |-> FALSE, sid |-> 0, old |-> None, searched |-> FALSE]

AppInit ==
    /\ lemmy = None
    /\ nLemmy = 0
    /\ logged = FALSE
    /\ label = [kind |-> "", arg |-> <<>>]
    /\ posts = <<>>
    /\ created = <<>>
    /\ tasks = {}
    /\ focus = NoFocus
    /\ searching = FALSE
    /\ pc = "idle"
    /\ result = <<>>
    /\ it = 0
    /\ nSearch = 0
    /\ lastSearch = NoSearch
    /\ lastLogin = NoLogin
    /\ widgets = DefaultQuery
    /\ nav = NoNav

----------------------------------------------------------------------------
\* LoginForm.log_in

\* The instance URL handed to Lemmy(inst): "https://" is put in front of an
\* input that does not start with "http"; the value of inst.strip("/") is
\* dropped, so inst stays as it was.
log_in_inst(inst) ==
    LET inst1 == IF ~startswith(inst, http) THEN https_prefix \o inst ELSE inst
        dropped == strip(inst1, "/")
    IN  inst1

attempts_auth_always(user, passwd) == TRUE

\* if user and passwd:
attempts_auth(user, passwd) == user /= <<>> /\ passwd /= <<>>

watch_lemmy_always(old, new) == new /= None

\* LemmyView.watch_lemmy: whether it goes on to action_search
watch_lemmy_searches(old, new) ==
    ~(new = None \/ (old /= None /\ new.nodeinfo = old.nodeinfo))

no_session_never(session) == FALSE

\* if self.lemmy is None:
no_session(session) == session = None

search_args_last(w, last) == IF last.sid = 0 THEN w ELSE last.spec

\* the q, type_, sort and listing_type of the search call: the values the
\* widgets of Search hold when action_search runs
search_args(w, last) == w

\* LemmyView.action_search up to the search call: a no-op without a session,
\* else one search call whose result is then installed step by step.  via
\* names the caller; skipped records a run that returned without a session.
action_search_call(session, res, via) ==
    IF no_session(session)
    THEN /\ lastSearch' = [lastSearch EXCEPT !.skipped = TRUE]
         /\ UNCHANGED <<pc, result, it, nSearch>>
    ELSE /\ nSearch' = nSearch + 1
         /\ lastSearch' = [sid |-> session.id,
                           spec |-> search_args(widgets, lastSearch),
                           prev |-> lastSearch.spec, via |-> via, skipped |-> FALSE]
         /\ result' = res
         /\ it' = 0
         /\ pc' = "remove_children"

\* What the search may return within the bounds of the model.
SearchAllowed(res) ==
    /\ nSearch < MaxSearches
    /\ Len(created) + Len(res) <= MaxPosts

\* connect_lemmy_view(lemmy): the reactive cell stores a value that differs
\* from the current one and then calls watch_lemmy, which may go on to search
connect_lemmy_view(new, Results) ==
    /\ lemmy' = new
    /\ IF new /= lemmy /\ watch_lemmy_searches(lemmy, new)
       THEN \E res \in Results : SearchAllowed(res) /\ action_search_call(new, res, "login")
       ELSE UNCHANGED <<pc, result, it, nSearch, lastSearch>>

session_on_failure_stored(old, new) == new

\* The session cell after a failed attempt: both failure branches return
\* before connect_lemmy_view, so the Lemmy object just built is dropped.
session_on_failure(old, new) == old

log_in(Insts, Users, Passwds, Results) ==
    \E instIn \in Insts, user \in Users, passwd \in Passwds, ni \in NodeInfos :
        LET inst == log_in_inst(instIn)
            tried == ni /= 0 /\ attempts_auth(user, passwd)
            attempt == [NoLogin EXCEPT !.inst = instIn, !.arg = inst,
                            !.user = user, !.passwd = passwd, !.nodeinfo = ni,
                            !.authTried = tried, !.old = lemmy]
        IN  /\ pc = "idle"
            /\ nLemmy < MaxLogins
            /\ nLemmy' = nLemmy + 1
            /\ IF ni = 0
               THEN /\ label' = [kind |-> "Failed connection to ", arg |-> inst]
                    /\ lastLogin' = [attempt EXCEPT !.outcome = "ConnectionFailed"]
                    /\ lemmy' = session_on_failure(lemmy,
                            [id |-> nLemmy + 1, nodeinfo |-> ni, authenticated |-> FALSE])
                    /\ UNCHANGED <<logged, pc, result, it, nSearch, lastSearch>>
               ELSE \E authOk \in (IF tried THEN BOOLEAN ELSE {FALSE}) :
                    LET new == [id |-> nLemmy + 1, nodeinfo |-> ni,
                                authenticated |-> tried /\ authOk]
                    IN  IF tried /\ ~authOk
                        THEN /\ label' = [kind |-> "Failed login for ", arg |-> user]
                             /\ lastLogin' = [attempt EXCEPT !.outcome = "AuthFailed"]
                             /\ lemmy' = session_on_failure(lemmy, new)
                             /\ UNCHANGED <<logged, pc, result, it, nSearch, lastSearch>>
                        ELSE /\ label' = [kind |-> "Success!", arg |-> <<>>]
                             /\ logged' = TRUE
                             /\ connect_lemmy_view(new, Results)
                             /\ lastLogin' = [attempt EXCEPT !.outcome = "Success",
                                                  !.authOk = authOk, !.sid = new.id,
                                                  !.searched = (nSearch' = nSearch + 1
                                                        /\ lastSearch'.sid = new.id)]
            /\ UNCHANGED <<posts, created, tasks, focus, searching, widgets>>

\* LemmyUIApp.action_log_in (ctrl+l)
action_log_in ==
    /\ pc = "idle"
    /\ logged' = FALSE
    /\ UNCHANGED <<lemmy, nLemmy, label, posts, created, tasks, focus, searching,
                   pc, result, it, nSearch, lastSearch, lastLogin, widgets>>

\* LemmyUIApp.action_start_search ("/")
action_start_search ==
    /\ pc = "idle"
    /\ searching' = TRUE
    /\ focus' = [w |-> "query", id |-> 0]
    /\ UNCHANGED <<lemmy, nLemmy, logged, label, posts, created, tasks,
                   pc, result, it, nSearch, lastSearch, lastLogin, widgets>>

----------------------------------------------------------------------------
\* LemmyView.action_search, reached from on_search and from action_refresh

action_search(Results, via) ==
    \E res \in Results :
        /\ pc = "idle"
        /\ SearchAllowed(res)
        /\ action_search_call(lemmy, res, via)
        /\ UNCHANGED <<lemmy, nLemmy, logged, label, posts, created, tasks, focus,
                       searching, lastLogin, widgets>>

\* LemmyView.on_search: Input.Submitted, which the focused #query input posts
\* on Enter
on_search(Results) ==
    /\ focus.w = "query"
    /\ action_search(Results, "submit")

\* LemmyUIApp.action_refresh: the binding of "r", which the focused #query
\* input takes as text
action_refresh(Results) ==
    /\ focus.w /= "query"
    /\ action_search(Results, "refresh")

\* the user types in #query
input_changed ==
    \E v \in QueryTexts \ {widgets.q} :
        /\ pc = "idle"
        /\ widgets' = [widgets EXCEPT !.q = v]
        /\ UNCHANGED <<lemmy, nLemmy, logged, label, posts, created, tasks, focus,
                       searching, pc, result, it, nSearch, lastSearch, lastLogin>>

\* the user picks another value in #searchtype, #sorttype or #listingtype
select_changed ==
    \E w \in [q : {widgets.q}, type_ : SearchTypes, sort : SortTypes,
               listing_type : ListingTypes] :
        /\ pc = "idle"
        /\ Cardinality({f \in {"type_", "sort", "listing_type"} : w[f] /= widgets[f]}) = 1
        /\ widgets' = w
        /\ UNCHANGED <<lemmy, nLemmy, logged, label, posts, created, tasks, focus,
                       searching, pc, result, it, nSearch, lastSearch, lastLogin>>

remove_children_keeps(ps) == ps

\* A Post widget that is neither in PostView nor held by a pending task: no
\* reference to it is left.
Gone == [gen |-> 0, title |-> "", body |-> "", thumbnail |-> NoUrl, thumb |-> "",
         pos |-> 0, late |-> FALSE, task |-> "none"]

\* postview.remove_children(): the children left in PostView
remove_children(ps) == <<>>

\* Where the focus can be once the children ps are all that is left: a
\* removed widget loses the focus, which goes to a widget that is still there
\* or to none.
focus_after_removal(f, ps) ==
    IF f.w = "post" /\ f.id \notin Range(ps)
    THEN {NoFocus, [w |-> "query", id |-> 0], [w |-> "postview", id |-> 0]}
    ELSE {f}

\* postview.remove_children(); search.remove_class("searching")
search_clear ==
    /\ pc = "remove_children"
    /\ posts' = remove_children(posts)
    /\ focus' \in focus_after_removal(focus, posts')
    /\ searching' = FALSE
    /\ created' = [q \in 1..Len(created) |->
                       IF q \in tasks \/ q \in Range(posts') THEN created[q] ELSE Gone]
    /\ pc' = "add_post"
    /\ UNCHANGED <<lemmy, nLemmy, logged, label, tasks, result, it,
                   nSearch, lastSearch, lastLogin, widgets>>

watch_thumbnail_always(url) == TRUE

\* Post.watch_thumbnail: if self.thumbnail is not None, the task is created
watch_thumbnail_starts(url) == url /= NoUrl

\* PostView.add_post, one turn of the loop over result["posts"]
add_post ==
    /\ pc = "add_post"
    /\ it < Len(result)
    /\ LET post_contents == result[it + 1]
           pid == Len(created) + 1
           post == [gen |-> nSearch, title |-> post_contents.name, body |-> "",
                    thumbnail |-> post_contents.thumbnail_url, thumb |-> "",
                    pos |-> it + 1, late |-> FALSE,
                    task |-> IF watch_thumbnail_starts(post_contents.thumbnail_url)
                             THEN "pending" ELSE "none"]
       IN  /\ created' = Append(created, post)
           /\ posts' = Append(posts, pid)
              \* post.thumbnail = url: the watcher runs when the value differs
              \* from None, and starts the task
           /\ tasks' = IF watch_thumbnail_starts(post_contents.thumbnail_url)
                       THEN tasks \cup {pid} ELSE tasks
    /\ it' = it + 1
    /\ UNCHANGED <<lemmy, nLemmy, logged, label, focus, searching, pc, result,
                   nSearch, lastSearch, lastLogin, widgets>>

auto_focus_last(res, ps, f) ==
    IF res /= <<>> THEN [w |-> "post", id |-> ps[Len(ps)]] ELSE f

\* if result["posts"]: postview.query(Post)[0].focus()
auto_focus(res, ps, f) ==
    IF res /= <<>> THEN [w |-> "post", id |-> ps[1]] ELSE f

\* the end of the loop over result["posts"], and the focus on the first post
search_focus ==
    /\ pc = "add_post"
    /\ it = Len(result)
    /\ focus' = auto_focus(result, posts, focus)
    /\ pc' = "idle"
    /\ UNCHANGED <<lemmy, nLemmy, logged, label, posts, created, tasks, searching,
                   result, it, nSearch, lastSearch, lastLogin, widgets>>

----------------------------------------------------------------------------
\* Post.update_thumbnail, the task started by Post.watch_thumbnail

\* the update lands on the post now at the position the post had in its list
thumbnail_update_by_pos(cr, ps, pid) ==
    IF cr[pid].pos <= Len(ps)
    THEN [cr EXCEPT ![ps[cr[pid].pos]].thumb = cr[pid].thumbnail]
    ELSE cr

\* self.query_one("#thumb").update(img): the task holds its own Post (self)
thumbnail_update(cr, ps, pid) ==
    [cr EXCEPT ![pid].thumb = cr[pid].thumbnail, ![pid].task = "done"]

update_thumbnail ==
    \E pid \in tasks, ok \in BOOLEAN :
        /\ pc = "idle"
        /\ tasks' = tasks \ {pid}
           \* late: the task ended after its post had left PostView
        /\ created' = IF ok
                      THEN [thumbnail_update(created, posts, pid)
                                EXCEPT ![pid].late = pid \notin Range(posts)]
                      \* PixelImage(url) or query_one raised: the task ends
                      ELSE [created EXCEPT ![pid].task = "raised",
                                           ![pid].late = pid \notin Range(posts)]
        /\ UNCHANGED <<lemmy, nLemmy, logged, label, posts, focus, searching, pc,
                       result, it, nSearch, lastSearch, lastLogin, widgets>>

\* Post.update_thumbnail when the server of the thumbnail never answers:
\* requests.get(url, stream=True) has no timeout and is called, not awaited, in
\* the coroutine, so the call does not return and the event loop runs nothing
\* else.
update_thumbnail_blocks ==
    \E pid \in tasks :
        /\ pc = "idle"
        /\ created' = [created EXCEPT ![pid].task = "blocked"]
        /\ pc' = "blocked"
        /\ UNCHANGED <<lemmy, nLemmy, logged, label, posts, tasks, focus, searching,
                       result, it, nSearch, lastSearch, lastLogin, widgets>>

----------------------------------------------------------------------------
\* The focus bindings of LemmyUIApp, in the view shown once logged in (the
\* login form is hidden).

Query == [w |-> "query", id |-> 0]
PostViewWidget == [w |-> "postview", id |-> 0]

\* The focusable widgets of LemmyView in document order: the widgets of
\* Search.compose, then PostView (a ScrollableContainer, focusable or not with
\* the version of the library, pv) and its Post children.
focus_chain(ps, pv) ==
    <<Query>> \o [i \in 1..3 |-> [w |-> "select", id |-> i]]   \* the 3 Selects
        \o (IF pv THEN <<PostViewWidget>> ELSE <<>>)
        \o [i \in 1..Len(ps) |-> [w |-> "post", id |-> ps[i]]]

\* The container a widget is composed or mounted in: a Post in PostView, the
\* Input and the Selects in Search, Search and PostView in LemmyView; no
\* widget for no focus.
widget_parent(f) ==
    CASE f.w = "post" -> PostViewWidget
      [] f.w \in {"query", "select"} -> [w |-> "search", id |-> 0]
      [] f.w \in {"postview", "search"} -> [w |-> "lemmyview", id |-> 0]
      [] OTHER -> f

\* position of widget f in the chain, 0 when it is not there
chain_index(chain, f) ==
    IF \E i \in 1..Len(chain) : chain[i] = f
    THEN CHOOSE i \in 1..Len(chain) : chain[i] = f
    ELSE 0

\* the widget one place before (d = -1) or after (d = 1) the focused one, round
\* the ends of the chain; with no focus, the last or the first of the chain
move_focus(chain, f, d) ==
    LET i == chain_index(chain, f)
    IN  IF i = 0
        THEN (IF d = 1 THEN chain[1] ELSE chain[Len(chain)])
        ELSE chain[((i - 1 + d) % Len(chain)) + 1]

\* App.action_focus_previous, also Binding("up,k", "focus_previous")
action_focus_previous(chain, f) == move_focus(chain, f, -1)

\* LemmyUIApp.action_focus_parent, Binding("escape") and Binding("h"):
\* self is the app, whose parent is None, so self.parent.focus() raises
\* AttributeError and the handler runs self.action_focus_previous().
action_focus_parent ==
    /\ pc = "idle"
    /\ logged
    /\ \E pv \in BOOLEAN :
            focus' = action_focus_previous(focus_chain(posts, pv), focus)
    /\ nav' = [key |-> "escape", from |-> focus]
    /\ UNCHANGED <<lemmy, nLemmy, label, logged, posts, created, tasks, searching,
                   pc, result, it, nSearch, lastSearch, lastLogin, widgets>>

----------------------------------------------------------------------------
\* KittyImage: the base64 payload and its frames.  A byte is a number in
\* 0..255; a character of the base64 alphabet is its index 0..63, and 64
\* stands for the padding character "=".

ChunkSize == 4096

Min(a, b) == IF a < b THEN a ELSE b

Pow(b, e) == IF e = 0 THEN 1 ELSE IF e = 1 THEN b ELSE IF e = 2 THEN b * b ELSE b * b * b

\* base64.standard_b64encode
standard_b64encode(bs) ==
    LET n == Len(bs)
        byte(i) == IF i <= n THEN bs[i] ELSE 0
    IN  [k \in 1..(4 * ((n + 2) \div 3)) |->
            LET g == (k - 1) \div 4
                j == (k - 1) % 4
                v == byte(3 * g + 1) * 65536 + byte(3 * g + 2) * 256 + byte(3 * g + 3)
            IN  IF 3 * g + j > n THEN 64 ELSE (v \div Pow(64, 3 - j)) % 64]

\* base64.standard_b64decode, on a padded sequence of whole groups
standard_b64decode(cs) ==
    LET n == Len(cs)
        pads == Cardinality({k \in 1..n : cs[k] = 64})
        sextet(k) == IF cs[k] = 64 THEN 0 ELSE cs[k]
    IN  [i \in 1..(3 * (n \div 4) - pads) |->
            LET g == (i - 1) \div 3
                j == (i - 1) % 3
                v == sextet(4 * g + 1) * 262144 + sextet(4 * g + 2) * 4096
                     + sextet(4 * g + 3) * 64 + sextet(4 * g + 4)
            IN  (v \div Pow(256, 2 - j)) % 256]

\* KittyImage.serialize_gr_command: one frame, <ESC>_G cmd [; payload] <ESC>\,
\* kept as its two parts; cmd is the list of key=value pairs in order.
serialize_gr_command(cmd, payload) ==
    [cmd |-> cmd, payload |-> payload, sep |-> payload /= <<>>]

payload_raw(bs) == bs

\* data = standard_b64encode(self.png.read())
payload_data(bs) == standard_b64encode(bs)

more_flag_always(rest) == "1"

\* m = 1 if data else 0, as it is formatted into the frame
more_flag(rest) == IF rest /= <<>> THEN "1" ELSE "0"

rest_skips_one(data) == SubSeq(data, ChunkSize + 2, Len(data))

\* data[4096:]
rest_of(data) == SubSeq(data, ChunkSize + 1, Len(data))

\* the loop of KittyImage.write_chunked
RECURSIVE write_loop(_, _, _)
write_loop(data, cmd, out) ==
    IF data = <<>>
    THEN out
    ELSE LET chunk == SubSeq(data, 1, Min(ChunkSize, Len(data)))
             rest == rest_of(data)
             frame == serialize_gr_command(
                          <<[k |-> "m", v |-> more_flag(rest)]>> \o cmd, chunk)
         IN  write_loop(rest, <<>>, Append(out, frame))

\* KittyImage.write_chunked(a="T", f=100)
write_chunked(bs) ==
    write_loop(payload_data(bs), <<[k |-> "a", v |-> "T"], [k |-> "f", v |-> "100"]>>, <<>>)

\* The bytes img.save(self.png, format="png") leaves in self.png: every short
\* sequence over a few byte values, and long ones around the chunk boundaries.
MaxSmallLen == 4
SmallBytes == {0, 65, 255}
LargeLens == {3071, 3072, 3073, 6144, 6145, 7500, 10000}
Pattern(len, step) == [i \in 1..len |-> (i * step) % 256]
PngBytes ==
    SeqsUpTo(SmallBytes, MaxSmallLen)
    \cup {Pattern(len, step) : len \in LargeLens, step \in {7, 255}}

KittyInit ==
    /\ decodable \in BOOLEAN
    /\ png \in (IF decodable THEN PngBytes ELSE {<<>>})
    /\ buf = <<>>
    /\ kpc = "new"

KittyOff ==
    /\ png = <<>>
    /\ buf = <<>>
    /\ kpc = "off"
    /\ decodable = TRUE

\* KittyImage.__init__ once the response is there: Image.open raises on bytes
\* that are no image and the exception leaves __init__; otherwise
\* self.buf = io.BytesIO() and write_chunked run.
kitty_write ==
    /\ kpc = "new"
    /\ IF decodable
       THEN buf' = write_chunked(png) /\ kpc' = "done"
       ELSE buf' = buf /\ kpc' = "raised"
    /\ UNCHANGED <<png, decodable>>

----------------------------------------------------------------------------
\* src/main.py: PostView

MaxCount == 4
MaxRun == 2 * MaxCount

move_index_clamped(i, direction, n) ==
    IF i + direction < 0 THEN 0 ELSE IF i + direction > n - 1 THEN n - 1 ELSE i + direction

move_index_truncated(i, direction, n) ==
    IF i + direction < 0 THEN 0 - ((0 - (i + direction)) % n) ELSE (i + direction) % n

\* (self.idx + direction) % len(posts)
move_index(i, direction, n) == (i + direction) % n

SelInit ==
    /\ nPosts \in 0..MaxCount
    /\ idx = 0
    /\ selected = {}
    /\ mounted = FALSE
    /\ runStart = 0
    /\ runDir = 0
    /\ runLen = 0
    /\ prevIdx = 0
    /\ selRaised = FALSE

SelOff ==
    /\ nPosts = 0
    /\ idx = 0
    /\ selected = {}
    /\ mounted = FALSE
    /\ runStart = 0
    /\ runDir = 0
    /\ runLen = 0
    /\ prevIdx = 0
    /\ selRaised = FALSE

empty_posts_never(n) == FALSE

\* if not posts:
empty_posts(n) == n = 0

\* posts[i] on a list of n posts raises IndexError outside -n..n-1
index_error(i, n) == ~(0 - n <= i /\ i < n)

\* PostView._move_selection
_move_selection(direction) ==
    IF empty_posts(nPosts)
    THEN UNCHANGED <<idx, selected, selRaised>>
    ELSE IF index_error(idx, nPosts)
    THEN /\ selRaised' = TRUE
         /\ UNCHANGED <<idx, selected>>
    ELSE /\ idx' = move_index(idx, direction, nPosts)
         /\ selected' = (selected \ {idx}) \cup {idx'}
         /\ UNCHANGED selRaised

\* the moves requested so far, for the statements about runs of moves
Requested(direction) ==
    /\ prevIdx' = idx
    /\ IF runDir = direction /\ runLen < MaxRun
       THEN /\ runLen' = runLen + 1
            /\ UNCHANGED <<runStart, runDir>>
       ELSE /\ runLen' = 1
            /\ runStart' = idx
            /\ runDir' = direction

\* PostView.on_mount
on_mount ==
    /\ ~mounted
    /\ mounted' = TRUE
    /\ _move_selection(0)
    /\ UNCHANGED <<nPosts, runStart, runDir, runLen, prevIdx>>

\* PostView.action_go_up
action_go_up ==
    /\ mounted
    /\ _move_selection(-1)
    /\ Requested(-1)
    /\ UNCHANGED <<nPosts, mounted>>

\* PostView.action_go_down
action_go_down ==
    /\ mounted
    /\ _move_selection(1)
    /\ Requested(1)
    /\ UNCHANGED <<nPosts, mounted>>

----------------------------------------------------------------------------
\* The specifications.

Init == AppInit /\ KittyOff /\ SelOff

Next ==
    \/ log_in({host}, {<<"u">>}, {<<"p">>}, SearchResults)
            /\ UNCHANGED <<navVars, kittyVars, selVars>>
    \/ action_log_in /\ UNCHANGED <<navVars, kittyVars, selVars>>
    \/ action_start_search /\ UNCHANGED <<navVars, kittyVars, selVars>>
    \/ on_search(SearchResults) /\ UNCHANGED <<navVars, kittyVars, selVars>>
    \/ search_clear /\ UNCHANGED <<navVars, kittyVars, selVars>>
    \/ add_post /\ UNCHANGED <<navVars, kittyVars, selVars>>
    \/ search_focus /\ UNCHANGED <<navVars, kittyVars, selVars>>
    \/ update_thumbnail /\ UNCHANGED <<navVars, kittyVars, selVars>>

Spec == Init /\ [][Next]_vars

\* The login form alone, over all of its inputs; the searches return nothing.
NextLogin ==
    \/ log_in(InstInputs, UserInputs, PasswdInputs, {<<>>})
            /\ UNCHANGED <<navVars, kittyVars, selVars>>
    \/ action_log_in /\ UNCHANGED <<navVars, kittyVars, selVars>>
    \/ search_clear /\ UNCHANGED <<navVars, kittyVars, selVars>>
    \/ search_focus /\ UNCHANGED <<navVars, kittyVars, selVars>>

SpecLogin == Init /\ [][NextLogin]_vars

\* The search widgets over all of their values; the searches return nothing.
NextQuery ==
    \/ log_in({host}, {<<>>}, {<<>>}, {<<>>}) /\ UNCHANGED <<navVars, kittyVars, selVars>>
    \/ input_changed /\ UNCHANGED <<navVars, kittyVars, selVars>>
    \/ select_changed /\ UNCHANGED <<navVars, kittyVars, selVars>>
    \/ action_start_search /\ UNCHANGED <<navVars, kittyVars, selVars>>
    \/ on_search({<<>>}) /\ UNCHANGED <<navVars, kittyVars, selVars>>
    \/ action_refresh({<<>>}) /\ UNCHANGED <<navVars, kittyVars, selVars>>
    \/ search_clear /\ UNCHANGED <<navVars, kittyVars, selVars>>
    \/ search_focus /\ UNCHANGED <<navVars, kittyVars, selVars>>

SpecQuery == Init /\ [][NextQuery]_vars

\* The view with the focus bindings and the refresh binding.
NextFocus ==
    \/ log_in({host}, {<<>>}, {<<>>}, SearchResults)
            /\ nav' = NoNav /\ UNCHANGED <<kittyVars, selVars>>
    \/ action_start_search /\ nav' = NoNav /\ UNCHANGED <<kittyVars, selVars>>
    \/ on_search(SearchResults) /\ nav' = NoNav /\ UNCHANGED <<kittyVars, selVars>>
    \/ action_refresh(SearchResults) /\ nav' = NoNav /\ UNCHANGED <<kittyVars, selVars>>
    \/ search_clear /\ nav' = NoNav /\ UNCHANGED <<kittyVars, selVars>>
    \/ add_post /\ nav' = NoNav /\ UNCHANGED <<kittyVars, selVars>>
    \/ search_focus /\ nav' = NoNav /\ UNCHANGED <<kittyVars, selVars>>
    \/ action_focus_parent /\ UNCHANGED <<kittyVars, selVars>>

SpecFocus == Init /\ [][NextFocus]_vars

\* The application with thumbnail servers that may never answer.
NextFetch ==
    \/ log_in({host}, {<<"u">>}, {<<"p">>}, SearchResults)
            /\ UNCHANGED <<navVars, kittyVars, selVars>>
    \/ action_start_search /\ UNCHANGED <<navVars, kittyVars, selVars>>
    \/ on_search(SearchResults) /\ UNCHANGED <<navVars, kittyVars, selVars>>
    \/ search_clear /\ UNCHANGED <<navVars, kittyVars, selVars>>
    \/ add_post /\ UNCHANGED <<navVars, kittyVars, selVars>>
    \/ search_focus /\ UNCHANGED <<navVars, kittyVars, selVars>>
    \/ update_thumbnail /\ UNCHANGED <<navVars, kittyVars, selVars>>
    \/ update_thumbnail_blocks /\ UNCHANGED <<navVars, kittyVars, selVars>>

SpecFetch == Init /\ [][NextFetch]_vars

InitKitty == AppInit /\ KittyInit /\ SelOff

NextKitty == kitty_write /\ UNCHANGED <<appVars, navVars, selVars>>

SpecKitty == InitKitty /\ [][NextKitty]_vars

InitSel == AppInit /\ KittyOff /\ SelInit

NextSel ==
    \/ on_mount /\ UNCHANGED <<appVars, navVars, kittyVars>>
    \/ action_go_up /\ UNCHANGED <<appVars, navVars, kittyVars>>
    \/ action_go_down /\ UNCHANGED <<appVars, navVars, kittyVars>>

SpecSel == InitSel /\ [][NextSel]_vars

----------------------------------------------------------------------------
\* The claims about the application (Spec).

\* C1: while a search installs its result, the post list never holds a post of
\* the previous result together with a post of the new result: all posts in
\* the list come from the same search call.
C1_NoStaleOverlap ==
    \A i, j \in 1..Len(posts) : created[posts[i]].gen = created[posts[j]].gen

\* C1 witness: the second search has installed its first post after a first
\* search that had installed a post, whose thumbnail task is still pending.
C1_Witness ==
    /\ pc = "add_post"
    /\ nSearch = 2
    /\ it >= 1
    /\ posts /= <<>>
    /\ \E q \in tasks : created[q].gen = 1

\* C2: a thumbnail task of a post of an earlier search that ends after a later
\* search has replaced the post list changes neither the post list nor any
\* post in it.
C2_StaleTaskLeavesNewPosts ==
    [][\A q \in tasks :
         (q \notin tasks' /\ q \notin Range(posts) /\ created[q].gen < nSearch)
         => /\ posts' = posts
            /\ focus' = focus
            /\ \A i \in 1..Len(posts) : created'[posts[i]] = created[posts[i]]]_vars

\* C2 witness: a task of a replaced post has updated its thumbnail after the
\* later search installed a non-empty list.
C2_Witness ==
    /\ pc = "idle"
    /\ posts /= <<>>
    /\ \E q \in 1..Len(created) :
        /\ q \notin Range(posts)
        /\ created[q].task = "done"
        /\ created[q].thumb /= ""
        /\ created[q].late
        /\ created[q].gen < created[posts[1]].gen

\* C3 as stated: every successful login replaces the session and runs the
\* search with the new session.
C3_Original ==
    lastLogin.outcome = "Success"
    => /\ lemmy.id = lastLogin.sid
       /\ lastLogin.searched

\* C3 amended: every successful login replaces the session; it runs the search
\* with the new session exactly when there was no session before or the
\* nodeinfo of the previous session differs from that of the new one.
C3_Amended ==
    lastLogin.outcome = "Success"
    => /\ lemmy.id = lastLogin.sid
       /\ lemmy.id /= lastLogin.old.id
       /\ lemmy.nodeinfo = lastLogin.nodeinfo
       /\ lastLogin.searched
            <=> (lastLogin.old = None \/ lastLogin.old.nodeinfo /= lastLogin.nodeinfo)

\* C3 witness: a re-login to a server with the nodeinfo of the stored session
\* has replaced the session without a search.
C3_Witness ==
    /\ lastLogin.outcome = "Success"
    /\ lastLogin.old /= None
    /\ lastLogin.old.nodeinfo = lastLogin.nodeinfo
    /\ lemmy.id = lastLogin.sid
    /\ ~lastLogin.searched

----------------------------------------------------------------------------
\* The claims about the login form (SpecLogin).

\* C4: login ends in ConnectionFailed when discovery fails, without trying to
\* authenticate; in AuthFailed when discovery succeeds, user and password are
\* both non-empty and authentication is rejected; in Success otherwise, and
\* without trying to authenticate when user or password is empty.
C4_LoginOutcome ==
    lastLogin.outcome /= "none"
    => /\ lastLogin.nodeinfo = 0
            => /\ lastLogin.outcome = "ConnectionFailed"
               /\ label.kind = "Failed connection to "
               /\ ~lastLogin.authTried
       /\ (lastLogin.nodeinfo /= 0 /\ lastLogin.user /= <<>> /\ lastLogin.passwd /= <<>>)
            => /\ lastLogin.authTried
               /\ lastLogin.outcome \in {"Success", "AuthFailed"}
               /\ lastLogin.outcome = "Success"
                    => (lastLogin.authOk /\ lemmy.authenticated /\ label.kind = "Success!")
               /\ lastLogin.outcome = "AuthFailed"
                    => (~lastLogin.authOk /\ label.kind = "Failed login for ")
       /\ (lastLogin.nodeinfo /= 0 /\ (lastLogin.user = <<>> \/ lastLogin.passwd = <<>>))
            => /\ ~lastLogin.authTried
               /\ lastLogin.outcome = "Success"
               /\ label.kind = "Success!"
               /\ lemmy.id = lastLogin.sid
               /\ ~lemmy.authenticated

\* C4 witness: a login with a user name and an empty password has succeeded
\* without authentication.
C4_Witness ==
    /\ lastLogin.outcome = "Success"
    /\ lastLogin.user /= <<>>
    /\ lastLogin.passwd = <<>>
    /\ ~lastLogin.authTried
    /\ ~lemmy.authenticated

\* a scheme, then "://"
HasScheme(s) ==
    \E i \in 2..Len(s) : i + 2 <= Len(s) /\ SubSeq(s, i, i + 2) = <<":", "/", "/">>

\* C5: the endpoint passed to the discovery call starts with a scheme and has
\* no trailing "/".
C5_Normalized ==
    lastLogin.outcome /= "none"
    => /\ HasScheme(lastLogin.arg)
       /\ ~endswith(lastLogin.arg, <<"/">>)

----------------------------------------------------------------------------
\* The claims about KittyImage (SpecKitty).

\* the value of the key m of a frame
MFlag(frame) ==
    LET i == CHOOSE i \in 1..Len(frame.cmd) : frame.cmd[i].k = "m" IN frame.cmd[i].v

RECURSIVE Payloads(_)
\* the payload chunks of the frames, concatenated in the order of emission
Payloads(frames) ==
    IF frames = <<>> THEN <<>> ELSE Head(frames).payload \o Payloads(Tail(frames))

CeilDiv(a, b) == (a + b - 1) \div b

\* C6: for a non-empty payload the frames carry the payload in order, every
\* frame but the last carries m=1, and the last, and only the last, m=0.
C6_Frames ==
    (kpc = "done" /\ png /= <<>>)
    => /\ buf /= <<>>
       /\ \A i \in 1..(Len(buf) - 1) : MFlag(buf[i]) = "1"
       /\ MFlag(buf[Len(buf)]) = "0"
       /\ Cardinality({i \in 1..Len(buf) : MFlag(buf[i]) = "0"}) = 1
       /\ \A i \in 1..Len(buf) : buf[i].payload /= <<>> /\ buf[i].sep
       /\ Payloads(buf) = standard_b64encode(png)

\* C6 witness: an image written as three frames or more.
C6_Witness ==
    /\ kpc = "done"
    /\ Len(buf) >= 3
    /\ MFlag(buf[1]) = "1"
    /\ MFlag(buf[Len(buf)]) = "0"

\* C7 as stated: L > 0 image bytes give ceil(L / 4096) frames, and 10000 bytes
\* give 3 frames.
C7_Original ==
    (kpc = "done" /\ png /= <<>>)
    => /\ Len(buf) = CeilDiv(Len(png), ChunkSize)
       /\ Len(png) = 10000 => Len(buf) = 3

\* C7 amended: the chunks are cut from the base64 text, so L > 0 image bytes
\* give ceil(4 * ceil(L / 3) / 4096) frames: 10000 image bytes give 4 frames
\* (m=1 on frames 1 to 3, m=0 on frame 4), and 10000 base64 characters (7500
\* image bytes) give 3 frames (m=1 on frames 1 and 2, m=0 on frame 3).
C7_Amended ==
    (kpc = "done" /\ png /= <<>>)
    => /\ Len(buf) = CeilDiv(4 * CeilDiv(Len(png), 3), ChunkSize)
       /\ Len(png) = 10000
            => (Len(buf) = 4 /\ [i \in 1..4 |-> MFlag(buf[i])] = <<"1", "1", "1", "0">>)
       /\ Len(png) = 7500
            => (Len(buf) = 3 /\ [i \in 1..3 |-> MFlag(buf[i])] = <<"1", "1", "0">>)

\* C7 witness: 10000 image bytes written as 4 frames.
C7_Witness ==
    /\ kpc = "done"
    /\ Len(png) = 10000
    /\ Len(buf) = 4

----------------------------------------------------------------------------
\* The claims about the selection of PostView (SpecSel).

\* C9: on a non-empty list of count posts, count moves in one direction bring
\* the selection index back to where the run of moves started.
C9_WrapClosure ==
    (nPosts > 0 /\ runLen = nPosts) => idx = runStart

\* C9 witness: count moves up (Previous) on a list of three posts or more.
C9_Witness ==
    /\ nPosts >= 3
    /\ runLen = nPosts
    /\ runDir = -1
    /\ runStart = 1
    /\ idx = 1

\* C10: on a non-empty list the index stays in [0, count); a move down goes to
\* the next index and from the last to the first, a move up to the previous
\* index and from the first to the last; only the post at the index is selected.
C10_IndexWraps ==
    nPosts > 0
    => /\ idx \in 0..(nPosts - 1)
       /\ runDir = 1 => idx = (IF prevIdx = nPosts - 1 THEN 0 ELSE prevIdx + 1)
       /\ runDir = -1 => idx = (IF prevIdx = 0 THEN nPosts - 1 ELSE prevIdx - 1)
       /\ selected \subseteq {idx}
       /\ mounted => selected = {idx}

\* C10 witness: a move up from the first post has selected the last.
C10_Witness ==
    /\ nPosts >= 2
    /\ runDir = -1
    /\ prevIdx = 0
    /\ idx = nPosts - 1
    /\ selected = {idx}

\* C11: a move in either direction on an empty list raises nothing and leaves
\* the index and the selection as they were.
C11_EmptyMoveNoop ==
    nPosts = 0 => (~selRaised /\ idx = 0 /\ selected = {})

\* C11 witness: moves in both directions were requested on an empty list.
C11_Witness ==
    /\ nPosts = 0
    /\ mounted
    /\ runLen >= 1
    /\ runDir = 1
    /\ prevIdx = 0
    /\ runStart = 0
    /\ ~selRaised

----------------------------------------------------------------------------
\* More claims about the application (Spec).

\* C12: without a session action_search is a no-op: while the session is
\* absent no search call is issued and the post list stays as it is, and the
\* run of action_search that returns at once changes neither the focus nor the
\* state of the search widgets.
C12_NoSessionNoop ==
    [][/\ (lemmy = None /\ lemmy' = None)
            => /\ nSearch' = nSearch
               /\ posts' = posts
               /\ created' = created
               /\ tasks' = tasks
               /\ result' = result
               /\ pc' = pc
       /\ (lastSearch'.skipped /\ ~lastSearch.skipped)
            => /\ lemmy = None
               /\ nSearch' = nSearch
               /\ posts' = posts
               /\ focus' = focus
               /\ searching' = searching
               /\ widgets' = widgets
               /\ logged' = logged
               /\ label' = label]_vars

\* C12 witness: the query input was opened and submitted without a session.
C12_Witness ==
    /\ lemmy = None
    /\ lastSearch.skipped
    /\ searching
    /\ focus.w = "query"
    /\ posts = <<>>
    /\ nSearch = 0

----------------------------------------------------------------------------
\* The claims about the search widgets (SpecQuery).

\* C18 as stated: the search call of a refresh carries the QuerySpec of the
\* search call before it.
C18_Original ==
    lastSearch.via = "refresh" => lastSearch.spec = lastSearch.prev

\* C18 amended: the search call of a refresh carries the values the search
\* widgets hold when refresh runs, submitted or not.
C18_Amended ==
    (lastSearch.via = "refresh" /\ pc /= "idle") => lastSearch.spec = widgets

\* C18 witness: a refresh after the query text was edited and not submitted
\* has searched for the edited text.
C18_Witness ==
    /\ lastSearch.via = "refresh"
    /\ pc /= "idle"
    /\ lastSearch.prev.q = ""
    /\ lastSearch.prev.type_ = "Posts"
    /\ lastSearch.spec.q = "cats"
    /\ widgets.q = "cats"

----------------------------------------------------------------------------
\* The claims about the installed result list (Spec).

\* the posts of the list are the records of the search result, in order
Installed(ps, cr, res, gen) ==
    /\ Len(ps) = Len(res)
    /\ \A i \in 1..Len(ps) :
        /\ cr[ps[i]].title = res[i].name
        /\ cr[ps[i]].thumbnail = res[i].thumbnail_url
        /\ cr[ps[i]].gen = gen

\* C13 as stated: a non-empty result is installed with the focus on its first
\* post; with 0 results the post list ends empty and the search does not move
\* the focus.
C13_Original ==
    [][/\ (pc = "add_post" /\ pc' = "idle")
            => /\ Installed(posts', created', result, nSearch)
               /\ result /= <<>> => focus' = [w |-> "post", id |-> posts'[1]]
       /\ (pc \in {"remove_children", "add_post"} /\ result = <<>>)
            => focus' = focus]_vars

\* C13 amended: a non-empty result is installed with the focus on its first
\* post; with 0 results the post list ends empty and action_search makes no
\* focus call.  Clearing the list keeps a focus that is not on a removed post
\* and takes the focus away from a removed post.
C13_Amended ==
    [][/\ (pc = "add_post" /\ pc' = "idle")
            => /\ Installed(posts', created', result, nSearch)
               /\ result /= <<>> => focus' = [w |-> "post", id |-> posts'[1]]
               /\ result = <<>> => (posts' = <<>> /\ focus' = focus)
       /\ (pc = "remove_children" /\ pc' = "add_post")
            => /\ focus.w /= "post" => focus' = focus
               /\ focus'.w /= "post"]_vars

\* C13 witness: a search with 0 results has ended with an empty list after a
\* search that had focused its first post.
C13_Witness ==
    /\ pc = "idle"
    /\ nSearch = 2
    /\ result = <<>>
    /\ posts = <<>>
    /\ focus.w /= "post"
    /\ \E q \in tasks : created[q].gen = 1 /\ created[q].pos = 1

----------------------------------------------------------------------------
\* The claims about the thumbnail of a post (Spec).  The state of a thumbnail
\* is the field task of the post: "none" (no fetch requested), "pending" (the
\* task runs), "done" (the image is shown), "raised" (the task ended in an
\* exception).

Live(cr) == {q \in 1..Len(cr) : cr[q] /= Gone}

\* C14: the thumbnail state of a post moves only from pending to done or to
\* raised; a post starts pending with a thumbnail URL and none without one; a
\* post without URL stays none and has no task.
C14_ThumbnailForward ==
    [][/\ \A q \in Live(created) \cap Live(created') :
            /\ created'[q].task /= created[q].task
                => /\ created[q].task = "pending"
                   /\ created'[q].task \in {"done", "raised"}
            /\ created[q].thumbnail = NoUrl
                => created'[q].task = "none" /\ q \notin tasks'
       /\ \A q \in Live(created') \ (1..Len(created)) :
            /\ created'[q].task =
                    (IF created'[q].thumbnail = NoUrl THEN "none" ELSE "pending")
            /\ q \in tasks' <=> created'[q].thumbnail /= NoUrl]_vars

\* C14 witness: every task has ended, and the list holds a post without URL
\* that never had a task next to a post whose fetch has ended, in the second
\* list installed.
C14_Witness ==
    /\ pc = "idle"
    /\ tasks = {}
    /\ nSearch = 2
    /\ \E q \in Range(posts) : created[q].thumbnail = NoUrl /\ created[q].task = "none"
    /\ \E q \in Range(posts) : created[q].task \in {"done", "raised"}

----------------------------------------------------------------------------
\* The claim about a failed login (Spec).

\* C20: a run of log_in that ends in ConnectionFailed or AuthFailed changes
\* the label and nothing else: the session, the class "logged", the posts,
\* the focus are as before, and no search call is issued.
C20_FailedLoginFrame ==
    [][(/\ nLemmy' = nLemmy + 1
        /\ lastLogin'.outcome \in {"ConnectionFailed", "AuthFailed"})
        => /\ label'.kind \in {"Failed connection to ", "Failed login for "}
           /\ lemmy' = lemmy
           /\ logged' = logged
           /\ posts' = posts /\ created' = created /\ tasks' = tasks
           /\ focus' = focus /\ searching' = searching /\ widgets' = widgets
           /\ nSearch' = nSearch /\ lastSearch' = lastSearch /\ pc' = pc]_vars

\* C20 witness: a login failed at the authentication while a session was
\* stored and posts were listed; the session is still the one stored before.
C20_Witness ==
    /\ lastLogin.outcome = "AuthFailed"
    /\ lastLogin.old /= None
    /\ lemmy = lastLogin.old
    /\ label.kind = "Failed login for "
    /\ posts /= <<>>
    /\ nSearch = 1

----------------------------------------------------------------------------
\* The claim about a thumbnail fetch that fails (SpecFetch).

\* C15: a fetch that fails or gets no answer ends with the thumbnail state
\* Failed ("raised"), never stuck in the call; the post stays listed as it was
\* and the tasks of the other posts go on.
C15_FetchFailureIsolated ==
    /\ \A q \in Live(created) : created[q].task /= "blocked"
    /\ pc = "blocked" => tasks = {}
    /\ \A q \in Range(posts) :
            created[q].task = "raised" /\ ~created[q].late => created[q].thumb = ""

----------------------------------------------------------------------------
\* The claim about the binding of escape and h (SpecFocus).

\* C16: after action_focus_parent the focus is on the parent container of the
\* widget that had it, and it is where it was when nothing had it.
C16_AscendToParent ==
    nav.key = "escape" => focus = widget_parent(nav.from)

----------------------------------------------------------------------------
\* The claim about bytes that are no image (SpecKitty).

\* C17: when the bytes cannot be decoded, KittyImage does not raise and its
\* buffer holds no frame.
C17_UndecodableNoFrames ==
    (~decodable /\ kpc /= "new") => (kpc = "done" /\ buf = <<>>)

====
